---- MODULE Spec2Model ----
(***************************************************************************)
(* The respondd responder of unifi_respondd (respondd_client.py):          *)
(* ResponddClient.start binds an IPv6 UDP socket, joins the multicast      *)
(* group and then serves request datagrams one at a time.                  *)
(*                                                                         *)
(* Text is modelled as a sequence of lexemes: a lexeme is a word without   *)
(* blanks ("GET", "nodeinfo", ...) or one separator character, and the     *)
(* text is the concatenation of its lexemes.  Hardware addresses and       *)
(* node ids are sequences of one-character strings.                        *)
(***************************************************************************)
EXTENDS Integers, Sequences, FiniteSets, TLC

\* ------------------------------------------------------------------ bounds
\* Longest request text, in lexemes ("GET nodeinfo statistics" has 5).
MaxMsgLen == 5
\* Most access points the data source returns in one fetch.
MaxAps == 2
\* Largest memory size tried on the record mapper, in KiB.
MaxKiB == 2

\* ------------------------------------------------------------ input alphabets
SPACE == " "
NEWLINE == "\n"
Lexemes == {"GET", "nodeinfo", "statistics", "bogus", SPACE, NEWLINE}

SeqsUpTo(S, n) == UNION {[1..k -> S] : k \in 0..n}

\* A datagram whose bytes are not valid UTF-8.
InvalidUtf8 == <<"\\xff">>
\* The payloads recvfrom can deliver.
Messages == SeqsUpTo(Lexemes, MaxMsgLen) \cup {InvalidUtf8}

\* Unicast sources of requests, and the multicast group the socket joined.
Requesters == {"fe80::1%5000", "fe80::2%5001"}
MulticastGroup == "ff02::2:1001"

\* Access-point records as unifi_respondd.get_infos() yields them.
Mac1 == <<"A","A",":","B","B",":","C","C",":","D","D",":","E","E",":","F","F">>
Mac2 == <<"1","8",":","e","8",":","2","9",":","0","0",":","0","a",":","0","1">>
Ap1 == [mac |-> Mac1, name |-> "gw1", firmware |-> "4.3.20", model |-> "U7LT",
        latitude |-> 52, longitude |-> 13, contact |-> "noc@example.org",
        client_count |-> 3, uptime |-> 86400, load_avg |-> 1,
        mem_total |-> 4096, mem_used |-> 1025, mem_buffer |-> 2047]
Ap2 == [mac |-> Mac2, name |-> "", firmware |-> "", model |-> "",
        latitude |-> 0, longitude |-> 0, contact |-> "",
        client_count |-> 0, uptime |-> 0, load_avg |-> 0,
        mem_total |-> 0, mem_used |-> 0, mem_buffer |-> 0]
AccessPoints == {Ap1, Ap2}
\* What one fetch of the data source can return.
Inventories == SeqsUpTo(AccessPoints, MaxAps)

\* ------------------------------------------------------------ python values
\* A python value the loop passes around: None, a list, or a dict kept as
\* its (key, value) pairs in insertion order.
None == [type |-> "None", items |-> <<>>]
List(xs) == [type |-> "list", items |-> xs]
Dict(kvs) == [type |-> "dict", items |-> kvs]
EmptyDict == Dict(<<>>)

\* bool(v): None, [] and {} are falsy.
Truthy(v) == v.type # "None" /\ v.items # <<>>

Keys(kvs) == {kvs[i][1] : i \in 1..Len(kvs)}
Get(kvs, k) == kvs[CHOOSE i \in 1..Len(kvs) : kvs[i][1] = k][2]
\* d[k] = v: a present key keeps its position, a new key goes last.
Put(kvs, k, v) ==
    IF k \in Keys(kvs)
    THEN [i \in 1..Len(kvs) |-> IF kvs[i][1] = k THEN <<k, v>> ELSE kvs[i]]
    ELSE Append(kvs, <<k, v>>)

\* ------------------------------------------------------------ record mapper
RECURSIVE StripColons_FirstOnly(_)
\* Mutant of StripColons: mac.replace(":", "", 1).
StripColons_FirstOnly(s) ==
    IF s = <<>> THEN <<>>
    ELSE IF Head(s) = ":" THEN Tail(s)
    ELSE <<Head(s)>> \o StripColons_FirstOnly(Tail(s))

\* Upper case of a hex digit.
UpperOf(c) ==
    CASE c = "a" -> "A" [] c = "b" -> "B" [] c = "c" -> "C"
      [] c = "d" -> "D" [] c = "e" -> "E" [] c = "f" -> "F" [] OTHER -> c

RECURSIVE StripColons_Upper(_)
\* Mutant of StripColons: mac.replace(":", "").upper().
StripColons_Upper(s) ==
    IF s = <<>> THEN <<>>
    ELSE IF Head(s) = ":" THEN StripColons_Upper(Tail(s))
    ELSE <<UpperOf(Head(s))>> \o StripColons_Upper(Tail(s))

RECURSIVE StripColons(_)
\* mac.replace(":", "")
StripColons(s) ==
    IF s = <<>> THEN <<>>
    ELSE IF Head(s) = ":" THEN StripColons(Tail(s))
    ELSE <<Head(s)>> \o StripColons(Tail(s))

\* Mutant of IntDiv1024: round(x / 1024).
IntDiv1024_Round(x) == (x + 512) \div 1024

\* int(x / 1024): true division, then truncation toward zero.  The float
\* quotient is exact for byte counts below 2^53, the range modelled here.
IntDiv1024(x) == IF x >= 0 THEN x \div 1024 ELSE -((-x) \div 1024)

NodeInfo(ap) ==
    [firmware |-> [base |-> ap.firmware, release |-> ""],
     hostname |-> ap.name,
     node_id  |-> StripColons(ap.mac),
     location |-> [latitude |-> ap.latitude, longitude |-> ap.longitude],
     hardware |-> [model |-> ap.model],
     owner    |-> [contact |-> ap.contact]]

StatisticsInfo(ap) ==
    [clients |-> [total |-> ap.client_count, wifi |-> ap.client_count],
     uptime  |-> ap.uptime,
     node_id |-> StripColons(ap.mac),
     loadavg |-> ap.load_avg,
     memory  |-> [total   |-> IntDiv1024(ap.mem_total),
                  free    |-> IntDiv1024(ap.mem_total - ap.mem_used),
                  buffers |-> IntDiv1024(ap.mem_buffer)]]

HasName(ap) == ap.name # ""
\* Mutant of getNodeInfos: access points without a name are left out.
getNodeInfos_SkipUnnamed(aps) ==
    [i \in 1..Len(SelectSeq(aps, HasName)) |-> NodeInfo(SelectSeq(aps, HasName)[i])]

getNodeInfos(aps) == [i \in 1..Len(aps) |-> NodeInfo(aps[i])]
getStatistics(aps) == [i \in 1..Len(aps) |-> StatisticsInfo(aps[i])]

\* ------------------------------------------------------------ request parsing
\* str(msg, "UTF-8") raises UnicodeDecodeError on bytes that are no UTF-8.
DecodeFails(m) == m = InvalidUtf8

RECURSIVE Split_AnyBlank(_)
\* Mutant of Split: cuts at every blank or newline.
Split_AnyBlank(s) ==
    IF s = <<>> THEN << <<>> >>
    ELSE LET rest == Split_AnyBlank(Tail(s)) IN
         IF Head(s) \in {SPACE, NEWLINE} THEN << <<>> >> \o rest
         ELSE << <<Head(s)>> \o rest[1] >> \o Tail(rest)

RECURSIVE Split(_)
\* text.split(" "): cuts at every single blank, keeps empty tokens; the
\* result is never empty ("".split(" ") == [""]).
Split(s) ==
    IF s = <<>> THEN << <<>> >>
    ELSE LET rest == Split(Tail(s)) IN
         IF Head(s) = SPACE THEN << <<>> >> \o rest
         ELSE << <<Head(s)>> \o rest[1] >> \o Tail(rest)

GET == <<"GET">>
NODEINFO == <<"nodeinfo">>
STATISTICS == <<"statistics">>
\* Mutant of Recognized: the data source is fetched for every non-empty
\* token, before the kind is looked at.
Recognized_NonEmpty(token) == token # <<>>

Recognized(token) == token \in {NODEINFO, STATISTICS}

\* buildStruct(responseType), given what the fetch of the data source
\* returned: the record list of a recognized kind, None otherwise.
buildStruct(responseType, aps) ==
    IF responseType = STATISTICS THEN List(getStatistics(aps))
    ELSE IF responseType = NODEINFO THEN List(getNodeInfos(aps))
    ELSE None

\* ------------------------------------------------------------ merger, encoder
RECURSIVE MergeInfos_Overwrite(_, _, _)
\* Mutant of MergeInfos: the composite of a known node_id is replaced
\* instead of updated.
MergeInfos_Overwrite(merged, key, infos) ==
    IF infos = <<>> THEN merged
    ELSE MergeInfos_Overwrite(
             Put(merged, Head(infos).node_id, << <<key, Head(infos)>> >>),
             key, Tail(infos))

RECURSIVE MergeInfos_FirstWins(_, _, _)
\* Mutant of MergeInfos: a node_id already merged keeps its composite.
MergeInfos_FirstWins(merged, key, infos) ==
    IF infos = <<>> THEN merged
    ELSE MergeInfos_FirstWins(
             IF Head(infos).node_id \notin Keys(merged)
             THEN Put(merged, Head(infos).node_id, << <<key, Head(infos)>> >>)
             ELSE merged,
             key, Tail(infos))

RECURSIVE MergeInfos(_, _, _)
\* The inner loop of merge_node over one kind's records.
MergeInfos(merged, key, infos) ==
    IF infos = <<>> THEN merged
    ELSE LET info == Head(infos)
             next == IF info.node_id \notin Keys(merged)
                     THEN Put(merged, info.node_id, << <<key, info>> >>)
                     ELSE Put(merged, info.node_id,
                              Put(Get(merged, info.node_id), key, info))
         IN MergeInfos(next, key, Tail(infos))

\* Mutant of MergeKeys: merge_node returns from inside its loop over the
\* keys, after the first key.
MergeKeys_ReturnEarly(merged, kvs) ==
    IF kvs = <<>> THEN merged
    ELSE IF Truthy(Head(kvs)[2])
         THEN MergeInfos(merged, Head(kvs)[1], Head(kvs)[2].items)
         ELSE merged

RECURSIVE MergeKeys(_, _)
\* The outer loop of merge_node over the (key, value) pairs of the dict.
MergeKeys(merged, kvs) ==
    IF kvs = <<>> THEN merged
    ELSE LET key == Head(kvs)[1]
             val == Head(kvs)[2]
         IN MergeKeys(IF Truthy(val) THEN MergeInfos(merged, key, val.items)
                      ELSE merged,
                      Tail(kvs))

\* Mutant of MergeRaises: merge_node iterates a value without testing it,
\* and iterating None raises.
MergeRaises_NoneUnchecked(rs) ==
    \/ rs.type # "dict"
    \/ \E k \in 1..Len(rs.items) : rs.items[k][2].type = "None"

\* responseStruct.keys() raises AttributeError unless responseStruct is a dict.
MergeRaises(rs) == rs.type # "dict"
\* merge_node(responseStruct): node_id -> (kind -> record), insertion-ordered.
merge_node(rs) == MergeKeys(<<>>, rs.items)

\* bytes(json.dumps(node), "UTF-8") of node = {key: info.to_dict()}.
JsonDumps(node) == [enc |-> "json", doc |-> node]
\* zlib.compressobj(Z_DEFAULT_COMPRESSION, DEFLATED, -15): a raw deflate
\* stream around the document.
Deflate(data) == [enc |-> "raw-deflate", doc |-> data.doc]
\* Mutant of Encode: a document with a single kind is left uncompressed.
Encode_CompressIfSeveral(infos, withCompression) ==
    IF withCompression /\ Len(infos) > 1
    THEN Deflate(JsonDumps(infos)) ELSE JsonDumps(infos)

\* The payload sendStruct builds for one node.
Encode(infos, withCompression) ==
    IF withCompression THEN Deflate(JsonDumps(infos)) ELSE JsonDumps(infos)
\* Mutant of SendTo: the reply goes to the multicast group.
SendTo_Group(destAddress) == MulticastGroup

\* The address sendStruct hands to sendto.
SendTo(destAddress) == destAddress

\* ------------------------------------------------------------------- state
VARIABLES
    sock,           \* the socket: bound to the interface, to the port, joined
    pc,             \* position of start(): "setsockopt", "bind", "join",
                    \* "recvfrom", "decode", "multi", "single", "sendStruct",
                    \* "sendto", "returned", "exited"
    error,          \* the exception that ended start(), or "none"
    msg,            \* payload of the datagram being processed
    sourceAddress,  \* its source
    msgSplit,       \* its tokens
    i,              \* index into msgSplit of the next kind of a GET request
    responseStruct, \* the python value handed to sendStruct
    withCompression,\* third argument of sendStruct
    pending,        \* merged.values() not yet sent
    sent,           \* datagrams sent for the datagram being processed
    fetches,        \* data-source fetches made for it: kind and outcome
    prevSource      \* source of the datagram processed before this one

vars == <<sock, pc, error, msg, sourceAddress, msgSplit, i, responseStruct,
          withCompression, pending, sent, fetches, prevSource>>

request == <<msg, sourceAddress, msgSplit, i, responseStruct, withCompression,
             pending, sent, fetches, prevSource>>

Init ==
    /\ sock = [device |-> FALSE, port |-> FALSE, joined |-> FALSE]
    /\ prevSource = "none"
    /\ pc = "setsockopt"
    /\ error = "none"
    /\ msg = <<>>
    /\ sourceAddress = "none"
    /\ msgSplit = <<>>
    /\ i = 0
    /\ responseStruct = EmptyDict
    /\ withCompression = FALSE
    /\ pending = <<>>
    /\ sent = <<>>
    /\ fetches = <<>>

\* An uncaught exception leaves start(); nothing restarts it.
Raise(e) == pc' = "exited" /\ error' = e

\* ------------------------------------------------------------------ startup
\* setsockopt(SOL_SOCKET, SO_BINDTODEVICE, interface)
BindToDevice ==
    /\ pc = "setsockopt"
    /\ \E ok \in BOOLEAN :
         IF ok THEN /\ sock' = [sock EXCEPT !.device = TRUE]
                    /\ pc' = "bind"
                    /\ error' = error
         ELSE Raise("OSError") /\ UNCHANGED sock
    /\ UNCHANGED request

\* bind(("::", multicast_port))
Bind ==
    /\ pc = "bind"
    /\ \E ok \in BOOLEAN :
         IF ok THEN /\ sock' = [sock EXCEPT !.port = TRUE]
                    /\ pc' = "join"
                    /\ error' = error
         ELSE Raise("OSError") /\ UNCHANGED sock
    /\ UNCHANGED request

\* Mutant of joinMCAST: a failed join is ignored and the loop starts.
joinMCAST_IgnoreFailure ==
    /\ pc = "join"
    /\ \E ok \in BOOLEAN :
         sock' = [sock EXCEPT !.joined = ok]
    /\ pc' = "recvfrom"
    /\ UNCHANGED <<error, request>>

\* joinMCAST(sock, multicast_address, interface)
joinMCAST ==
    /\ pc = "join"
    /\ \E ok \in BOOLEAN :
         IF ok THEN /\ sock' = [sock EXCEPT !.joined = TRUE]
                    /\ pc' = "recvfrom"
                    /\ error' = error
         ELSE Raise("OSError") /\ UNCHANGED sock
    /\ UNCHANGED request

\* ------------------------------------------------------------- serving loop
\* msg, sourceAddress = recvfrom(2048)
Recvfrom ==
    /\ pc = "recvfrom"
    /\ \E m \in Messages, a \in Requesters :
         /\ msg' = m
         /\ sourceAddress' = a
    /\ pc' = "decode"
    /\ UNCHANGED <<sock, error, msgSplit, i, responseStruct, withCompression,
                   pending, sent, fetches, prevSource>>

\* msgSplit = str(msg, "UTF-8").split(" "); responseStruct = {}; the branch
\* on msgSplit[0] == "GET".
Decode ==
    /\ pc = "decode"
    /\ IF DecodeFails(msg)
       THEN /\ Raise("UnicodeDecodeError")
            /\ UNCHANGED <<msgSplit, i>>
       ELSE /\ msgSplit' = Split(msg)
            /\ IF Split(msg)[1] = GET
               THEN pc' = "multi" /\ i' = 2
               ELSE pc' = "single" /\ i' = 1
            /\ error' = error
    /\ UNCHANGED <<sock, msg, sourceAddress, responseStruct, withCompression,
                   pending, sent, fetches, prevSource>>

\* What one evaluation of the property _aps can do: get_infos() returns an
\* inventory, or raises.
FetchOutcomes ==
    {[ok |-> TRUE, aps |-> aps] : aps \in Inventories}
        \cup {[ok |-> FALSE, aps |-> <<>>]}
\* Mutant of FetchRaises: the failure is caught and the fetch counts as
\* an empty inventory.
FetchRaises_Swallowed(outcome) == FALSE

\* Nothing between get_infos() and start() catches: the exception leaves
\* start().
FetchRaises(outcome) == ~outcome.ok

\* One iteration of: for request in msgSplit[1:]:
\*     responseStruct[request] = self.buildStruct(request)
\* buildStruct fetches the data source once when the kind is recognized
\* (the property _statistics or _nodeinfos), and not otherwise.
MultiBuild ==
    /\ pc = "multi"
    /\ i <= Len(msgSplit)
    /\ IF Recognized(msgSplit[i])
       THEN \E outcome \in FetchOutcomes :
              /\ fetches' = Append(fetches, [kind |-> msgSplit[i],
                                             ok |-> outcome.ok, aps |-> outcome.aps])
              /\ IF FetchRaises(outcome)
                 THEN /\ Raise("FetchError")
                      /\ UNCHANGED <<responseStruct, i>>
                 ELSE /\ responseStruct' =
                           Dict(Put(responseStruct.items, msgSplit[i],
                                    buildStruct(msgSplit[i], outcome.aps)))
                      /\ i' = i + 1
                      /\ UNCHANGED <<pc, error>>
       ELSE /\ responseStruct' =
                 Dict(Put(responseStruct.items, msgSplit[i],
                          buildStruct(msgSplit[i], <<>>)))
            /\ i' = i + 1
            /\ UNCHANGED <<pc, error, fetches>>
    /\ UNCHANGED <<sock, msg, sourceAddress, msgSplit, withCompression, pending,
                   sent, prevSource>>

\* The loop is over: self.sendStruct(sourceAddress, responseStruct, True)
MultiCall ==
    /\ pc = "multi"
    /\ i > Len(msgSplit)
    /\ withCompression' = TRUE
    /\ pc' = "sendStruct"
    /\ UNCHANGED <<sock, error, msg, sourceAddress, msgSplit, i, responseStruct,
                   pending, sent, fetches, prevSource>>

\* responseStruct = self.buildStruct(msgSplit[0]);
\* self.sendStruct(sourceAddress, responseStruct, False)
SingleBuild ==
    /\ pc = "single"
    /\ IF Recognized(msgSplit[1])
       THEN \E outcome \in FetchOutcomes :
              /\ fetches' = Append(fetches, [kind |-> msgSplit[1],
                                             ok |-> outcome.ok, aps |-> outcome.aps])
              /\ IF FetchRaises(outcome)
                 THEN /\ Raise("FetchError")
                      /\ UNCHANGED <<responseStruct, withCompression>>
                 ELSE /\ responseStruct' = buildStruct(msgSplit[1], outcome.aps)
                      /\ withCompression' = FALSE
                      /\ pc' = "sendStruct"
                      /\ error' = error
       ELSE /\ responseStruct' = buildStruct(msgSplit[1], <<>>)
            /\ withCompression' = FALSE
            /\ pc' = "sendStruct"
            /\ UNCHANGED <<error, fetches>>
    /\ UNCHANGED <<sock, msg, sourceAddress, msgSplit, i, pending, sent,
                   prevSource>>

\* sendStruct up to its loop: merged = self.merge_node(responseStruct)
sendStruct ==
    /\ pc = "sendStruct"
    /\ IF MergeRaises(responseStruct)
       THEN /\ Raise("AttributeError")
            /\ UNCHANGED pending
       ELSE /\ pending' = [k \in 1..Len(merge_node(responseStruct))
                             |-> merge_node(responseStruct)[k][2]]
            /\ pc' = "sendto"
            /\ error' = error
    /\ UNCHANGED <<sock, msg, sourceAddress, msgSplit, i, responseStruct,
                   withCompression, sent, fetches, prevSource>>

\* One iteration of: for infos in merged.values(): encode, then
\* self._sock.sendto(responseData, destAddress), which may raise.
Sendto ==
    /\ pc = "sendto"
    /\ pending # <<>>
    /\ \E ok \in BOOLEAN :
         IF ok
         THEN /\ sent' = Append(sent, [dest |-> SendTo(sourceAddress),
                                       data |-> Encode(Head(pending), withCompression)])
              /\ pending' = Tail(pending)
              /\ pc' = pc
              /\ error' = error
         ELSE /\ Raise("OSError")
              /\ UNCHANGED <<sent, pending>>
    /\ UNCHANGED <<sock, msg, sourceAddress, msgSplit, i, responseStruct,
                   withCompression, fetches, prevSource>>

\* Mutant of Return: sendStruct returns from inside its loop.
Return_Early ==
    /\ pc = "sendto"
    /\ pc' = "returned"
    /\ UNCHANGED <<sock, error, request>>

\* The loop of sendStruct is over: sendStruct returns to start().
Return ==
    /\ pc = "sendto"
    /\ pending = <<>>
    /\ pc' = "returned"
    /\ UNCHANGED <<sock, error, request>>

\* while True: back to recvfrom.  The locals of the finished iteration are
\* dead (the next iteration rebinds each before reading it) and are dropped.
Loop ==
    /\ pc = "returned"
    /\ pc' = "recvfrom"
    /\ msg' = <<>>
    /\ sourceAddress' = "none"
    /\ msgSplit' = <<>>
    /\ i' = 0
    /\ responseStruct' = EmptyDict
    /\ withCompression' = FALSE
    /\ pending' = <<>>
    /\ sent' = <<>>
    /\ fetches' = <<>>
    /\ prevSource' = sourceAddress
    /\ UNCHANGED <<sock, error>>

Next ==
    \/ BindToDevice
    \/ Bind
    \/ joinMCAST
    \/ Recvfrom
    \/ Decode
    \/ MultiBuild
    \/ MultiCall
    \/ SingleBuild
    \/ sendStruct
    \/ Sendto
    \/ Return
    \/ Loop

Spec == Init /\ [][Next]_vars

\* ------------------------------------------------------------ record mapper alone
\* The record mapper (getNodeInfos, getStatistics) applied to what one fetch
\* of the data source can return, over a wider range of access-point
\* records than the serving loop is run with.
MacMixed == <<"a","A",":","0","F",":","c","3",":","D","d",":","9","e",":","B","0">>
MapperMacs == {Mac1, Mac2, MacMixed, <<>>}
\* Byte counts at and around the multiples of 1024.
MemValues == {k * 1024 + d : k \in 0..MaxKiB, d \in {0, 1, 1023}}
MapperAccessPoints ==
    {[Ap2 EXCEPT !.mac = m, !.mem_total = t, !.mem_used = u, !.mem_buffer = b]
        : m \in MapperMacs, t \in MemValues, u \in MemValues, b \in MemValues}
MapperInventories ==
    Inventories \cup {<<ap>> : ap \in MapperAccessPoints}
                \cup {<<Ap1, ap>> : ap \in {x \in MapperAccessPoints : x.mem_total = 1023}}

MapperInit ==
    /\ sock = [device |-> TRUE, port |-> TRUE, joined |-> TRUE]
    /\ prevSource = "none"
    /\ pc = "_aps"
    /\ error = "none"
    /\ msg = <<>>
    /\ sourceAddress = "none"
    /\ msgSplit = <<>>
    /\ i = 0
    /\ responseStruct = EmptyDict
    /\ withCompression = FALSE
    /\ pending = <<>>
    /\ sent = <<>>
    /\ fetches = <<>>

\* aps = self._aps
MapperFetch ==
    /\ pc = "_aps"
    /\ \E aps \in MapperInventories :
         fetches' = <<[kind |-> <<>>, ok |-> TRUE, aps |-> aps]>>
    /\ pc' = "getNodeInfos"
    /\ UNCHANGED <<sock, error, msg, sourceAddress, msgSplit, i, responseStruct,
                   withCompression, pending, sent, prevSource>>

\* getNodeInfos() on these access points
MapNodeInfos ==
    /\ pc = "getNodeInfos"
    /\ responseStruct' = Dict(Put(responseStruct.items, NODEINFO,
                                  List(getNodeInfos(fetches[1].aps))))
    /\ pc' = "getStatistics"
    /\ UNCHANGED <<sock, error, msg, sourceAddress, msgSplit, i,
                   withCompression, pending, sent, fetches, prevSource>>

\* getStatistics() on these access points
MapStatistics ==
    /\ pc = "getStatistics"
    /\ responseStruct' = Dict(Put(responseStruct.items, STATISTICS,
                                  List(getStatistics(fetches[1].aps))))
    /\ pc' = "mapped"
    /\ UNCHANGED <<sock, error, msg, sourceAddress, msgSplit, i,
                   withCompression, pending, sent, fetches, prevSource>>

MapperNext ==
    \/ MapperFetch
    \/ MapNodeInfos
    \/ MapStatistics

MapperSpec == MapperInit /\ [][MapperNext]_vars

\* ------------------------------------------------------------ vocabulary
Startup == {"setsockopt", "bind", "join"}
\* The responder is in Serving: joined, and start() has not been left.
Serving == sock.joined /\ pc # "exited"
\* start() is past buildStruct for the datagram at hand.
Built == pc \in {"sendStruct", "sendto", "returned", "exited"} /\ msgSplit # <<>>
\* The processing of the datagram at hand is over, one way or the other.
Handled == pc \in {"returned", "exited"} /\ msgSplit # <<>>

IsMulti == msgSplit # <<>> /\ msgSplit[1] = GET
IsSingle == msgSplit # <<>> /\ msgSplit[1] # GET
AllFetchesOk == \A k \in 1..Len(fetches) : fetches[k].ok
DistinctMacs(aps) ==
    \A j, k \in 1..Len(aps) : j # k => aps[j].mac # aps[k].mac
RecordOf(kind, ap) == IF kind = NODEINFO THEN NodeInfo(ap) ELSE StatisticsInfo(ap)

\* The node ids that occur in some record list of a dict.
NodeIdsIn(rs) ==
    UNION {{rs.items[k][2].items[j].node_id : j \in 1..Len(rs.items[k][2].items)}
              : k \in 1..Len(rs.items)}
\* The kinds a reply document carries, and the node it is about.
DocKinds(d) == {d.data.doc[k][1] : k \in 1..Len(d.data.doc)}
DocNodeIds(d) == {d.data.doc[k][2].node_id : k \in 1..Len(d.data.doc)}

\* ------------------------------------------------------------------ claims

\* C1: a datagram whose sole token is a recognized kind, without "GET", is
\* answered with exactly one uncompressed datagram per access point the
\* data source returned, each carrying only that kind's record of that node.
C1_SingleRequestAnswered ==
    (/\ Handled
     /\ Len(msgSplit) = 1
     /\ Recognized(msgSplit[1])
     /\ Len(fetches) = 1 /\ fetches[1].ok /\ DistinctMacs(fetches[1].aps)
     /\ error # "OSError")
    => sent = [k \in 1..Len(fetches[1].aps) |->
                 [dest |-> sourceAddress,
                  data |-> [enc |-> "json",
                            doc |-> << <<msgSplit[1],
                                         RecordOf(msgSplit[1], fetches[1].aps[k])>> >>]]]

\* C2: "GET nodeinfo statistics" answered from an inventory of n access
\* points with pairwise distinct hardware addresses gets exactly n replies,
\* one per node_id, each with a nodeinfo and a statistics entry of that
\* node; in general a GET request gets exactly one datagram per distinct
\* node_id of its merge result.
C2_MultiRequest ==
    (pc = "returned" /\ IsMulti) =>
        /\ Len(sent) = Cardinality(NodeIdsIn(responseStruct))
        /\ \A id \in NodeIdsIn(responseStruct) :
              \E k \in 1..Len(sent) : DocNodeIds(sent[k]) = {id}
        /\ (/\ msgSplit = <<GET, NODEINFO, STATISTICS>>
            /\ fetches[1].aps = fetches[2].aps
            /\ DistinctMacs(fetches[1].aps))
           => /\ Len(sent) = Len(fetches[1].aps)
              /\ \A k \in 1..Len(sent) :
                    /\ DocKinds(sent[k]) = {NODEINFO, STATISTICS}
                    /\ DocNodeIds(sent[k]) = {StripColons(fetches[1].aps[k].mac)}

C2_Witness ==
    /\ pc = "returned"
    /\ msgSplit = <<GET, NODEINFO, STATISTICS>>
    /\ fetches[1].aps = fetches[2].aps
    /\ DistinctMacs(fetches[1].aps)
    /\ Len(sent) = 2

\* C3: once Serving, no per-request failure takes the responder out of
\* Serving; only a failure during startup stops the process.
C3_FailureIsolation == pc = "exited" => ~sock.joined

\* The request names only unknown kinds.
OnlyUnknownKinds ==
    /\ msgSplit # <<>>
    /\ IF msgSplit[1] = GET
       THEN \A k \in 2..Len(msgSplit) : ~Recognized(msgSplit[k])
       ELSE Len(msgSplit) = 1 /\ ~Recognized(msgSplit[1])

\* C4: a request naming only unknown kinds, in single form or in GET form,
\* gets no reply, raises no error, and the responder goes on to receive.
C4_UnknownKindsNoOp ==
    (Built /\ OnlyUnknownKinds) => (pc # "exited" /\ error = "none" /\ sent = <<>>)

\* C7: when the data source returns no access point, a request for
\* recognized kinds, single or GET, gets no reply and raises no error, and
\* the responder keeps serving.
C7_EmptyInventory ==
    (/\ Built
     /\ fetches # <<>>
     /\ \A k \in 1..Len(fetches) : fetches[k].ok /\ fetches[k].aps = <<>>)
    => (pc # "exited" /\ error = "none" /\ sent = <<>>)

RECURSIVE BuildAll(_, _, _)
\* The dict start() builds for the kinds of a GET request, given what the
\* fetch for each returned.
BuildAll(kvs, kinds, results) ==
    IF kinds = <<>> THEN kvs
    ELSE BuildAll(Put(kvs, Head(kinds), buildStruct(Head(kinds), Head(results))),
                  Tail(kinds), Tail(results))
\* The datagrams a GET request for these kinds is answered with.
RepliesTo(kinds, results, dest) ==
    LET m == merge_node(Dict(BuildAll(<<>>, kinds, results)))
    IN {[dest |-> dest, data |-> Encode(m[k][2], TRUE)] : k \in 1..Len(m)}
Sent == {sent[k] : k \in 1..Len(sent)}

\* A GET request with a recognized kind and an unrecognized token.
MixedKinds ==
    /\ IsMulti
    /\ \E k \in 2..Len(msgSplit) : Recognized(msgSplit[k])
    /\ \E k \in 2..Len(msgSplit) : ~Recognized(msgSplit[k])

\* C5: a GET request with at least one recognized kind and any unrecognized
\* tokens is answered with the same set of datagrams as the request without
\* the unrecognized tokens, and the unrecognized tokens raise nothing.
C5_UnknownKindsSkipped ==
    MixedKinds =>
        /\ pc = "returned" =>
              Sent = RepliesTo(SelectSeq(Tail(msgSplit), Recognized),
                               [k \in 1..Len(fetches) |-> fetches[k].aps],
                               sourceAddress)
        /\ pc = "exited" => error \in {"FetchError", "OSError"}

C5_Witness ==
    /\ pc = "returned"
    /\ msgSplit = <<GET, NODEINFO, <<"bogus">> >>
    /\ Len(sent) = 2

\* C6: when a fetch of the data source fails, no reply is sent for the
\* request, also when an earlier kind was fetched, and no fetch follows the
\* failed one.
C6_NoPartialReply ==
    \A k \in 1..Len(fetches) :
        ~fetches[k].ok => (k = Len(fetches) /\ sent = <<>> /\ pending = <<>>)

C6_Witness ==
    /\ Len(fetches) = 2
    /\ fetches[1].ok /\ fetches[1].aps # <<>>
    /\ ~fetches[2].ok
    /\ pc = "exited"

\* C8: every reply to a request whose first token is "GET" is raw-deflate
\* compressed, also for a single kind; every reply to a request without it
\* is uncompressed; each datagram holds the document of one node.
C8_CompressionIffMulti ==
    \A k \in 1..Len(sent) :
        /\ IsMulti => sent[k].data.enc = "raw-deflate"
        /\ IsSingle => sent[k].data.enc = "json"
        /\ Cardinality(DocNodeIds(sent[k])) = 1

C8_Witness ==
    /\ msgSplit = <<GET, NODEINFO>>
    /\ Len(sent) = 2
    /\ \A k \in 1..Len(sent) :
          sent[k].data.enc = "raw-deflate" /\ DocKinds(sent[k]) = {NODEINFO}

\* C9: every datagram sent goes to the source of the datagram being
\* processed: never to the multicast group, never to the source of another
\* request.
C9_ReplyAddressing ==
    \A k \in 1..Len(sent) :
        /\ sent[k].dest = sourceAddress
        /\ sent[k].dest # MulticastGroup
        /\ prevSource # sourceAddress => sent[k].dest # prevSource

C9_Witness ==
    /\ sent # <<>>
    /\ prevSource \in Requesters \ {sourceAddress}

\* The records of one kind in a dict, and their node ids.
ListOf(rs, kind) ==
    IF kind \in Keys(rs.items) THEN Get(rs.items, kind).items ELSE <<>>
IdsOf(rs, kind) == {ListOf(rs, kind)[j].node_id : j \in 1..Len(ListOf(rs, kind))}

\* C10: the merge result has exactly the node_ids that occur in some kind's
\* list; a node_id in the nodeinfo and in the statistics list gets both
\* sub-records, a node_id in one list only gets that one and is not dropped.
C10_MergeCorrect ==
    responseStruct.type = "dict" =>
        LET m == merge_node(responseStruct) IN
        /\ Keys(m) = NodeIdsIn(responseStruct)
        /\ Len(m) = Cardinality(Keys(m))
        /\ \A id \in Keys(m) :
              LET c == Get(m, id) IN
              /\ Keys(c) = {kind \in {NODEINFO, STATISTICS} :
                               id \in IdsOf(responseStruct, kind)}
              /\ Len(c) = Cardinality(Keys(c))
              /\ \A kind \in Keys(c) :
                    /\ Get(c, kind).node_id = id
                    /\ \E j \in 1..Len(ListOf(responseStruct, kind)) :
                          ListOf(responseStruct, kind)[j] = Get(c, kind)

C10_Witness ==
    /\ pc = "sendto"
    /\ responseStruct.type = "dict"
    /\ \E a, b \in NodeIdsIn(responseStruct) :
          /\ a \in IdsOf(responseStruct, NODEINFO) \cap IdsOf(responseStruct, STATISTICS)
          /\ b \in IdsOf(responseStruct, STATISTICS) \ IdsOf(responseStruct, NODEINFO)
          /\ \E k \in 1..Len(pending) : {pending[k][n][1] : n \in 1..Len(pending[k])} = {STATISTICS}

\* ------------------------------------------------------- record mapper claims
NotColon(c) == c # ":"
\* The access points the mapper was given, and the two lists it built.
MapperAps == fetches[1].aps
NodeInfos == Get(responseStruct.items, NODEINFO).items
Statistics == Get(responseStruct.items, STATISTICS).items

\* C11: for every access-point record the node_id of its NodeInfo equals
\* the node_id of its StatisticsInfo, and both are the hardware address
\* without its colons.
C11_NodeIdentity ==
    pc = "mapped" =>
        \A j \in 1..Len(MapperAps) :
            /\ NodeInfos[j].node_id = Statistics[j].node_id
            /\ NodeInfos[j].node_id = SelectSeq(MapperAps[j].mac, NotColon)
            /\ \A n \in 1..Len(NodeInfos[j].node_id) : NodeInfos[j].node_id[n] # ":"

C11_Witness ==
    /\ pc = "mapped"
    /\ Len(MapperAps) = 1
    /\ MapperAps[1].mac = MacMixed
    /\ Len(Statistics[1].node_id) = 12

\* C13: with byte counts T >= U >= 0 and B >= 0 the memory fields are
\* total = T div 1024, free = (T - U) div 1024, buffers = B div 1024,
\* truncated: each is the integer q with q * 1024 <= bytes < (q + 1) * 1024.
C13_MemoryConversion ==
    pc = "mapped" =>
        \A j \in 1..Len(MapperAps) :
            LET ap == MapperAps[j]
                mem == Statistics[j].memory
                Trunc(q, bytes) == q \in Int /\ q * 1024 <= bytes /\ bytes < (q + 1) * 1024
            IN (ap.mem_total >= ap.mem_used /\ ap.mem_used >= 0 /\ ap.mem_buffer >= 0)
               => /\ Trunc(mem.total, ap.mem_total)
                  /\ Trunc(mem.free, ap.mem_total - ap.mem_used)
                  /\ Trunc(mem.buffers, ap.mem_buffer)

C13_Witness ==
    /\ pc = "mapped"
    /\ Len(MapperAps) = 1
    /\ MapperAps[1].mem_total = 2047
    /\ MapperAps[1].mem_used = 1
    /\ MapperAps[1].mem_buffer = 1023
    /\ Statistics[1].memory = [total |-> 1, free |-> 1, buffers |-> 0]

\* C14: the NodeInfo list and the StatisticsInfo list hold one record per
\* access-point record, in the order of the input, also for records whose
\* fields are zero or empty.
C14_NoFiltering ==
    pc = "mapped" =>
        /\ Len(NodeInfos) = Len(MapperAps)
        /\ Len(Statistics) = Len(MapperAps)
        /\ \A j \in 1..Len(MapperAps) :
              /\ NodeInfos[j].hostname = MapperAps[j].name
              /\ NodeInfos[j].node_id = SelectSeq(MapperAps[j].mac, NotColon)
              /\ Statistics[j].uptime = MapperAps[j].uptime
              /\ Statistics[j].node_id = SelectSeq(MapperAps[j].mac, NotColon)

C14_Witness ==
    /\ pc = "mapped"
    /\ MapperAps = <<Ap2, Ap1>>
    /\ Len(NodeInfos) = 2 /\ Len(Statistics) = 2
    /\ NodeInfos[1].hostname = "" /\ NodeInfos[2].hostname = "gw1"

\* Lower case of a hex digit, and of a string.
LowerOf(c) ==
    CASE c = "A" -> "a" [] c = "B" -> "b" [] c = "C" -> "c"
      [] c = "D" -> "d" [] c = "E" -> "e" [] c = "F" -> "f" [] OTHER -> c
LowerSeq(str) == [n \in 1..Len(str) |-> LowerOf(str[n])]
IsLowerCase(str) == LowerSeq(str) = str
\* The hardware addresses the fetches of this request returned.
FetchedMacs ==
    UNION {{fetches[k].aps[j].mac : j \in 1..Len(fetches[k].aps)}
              : k \in 1..Len(fetches)}

\* C12 as stated: whatever the letter case of the hardware address, the
\* node_id in a reply is the address without separators in lowercase hex.
C12_LowercaseNodeId ==
    \A k \in 1..Len(sent) : \A id \in DocNodeIds(sent[k]) :
        /\ IsLowerCase(id)
        /\ \E mac \in FetchedMacs : id = LowerSeq(SelectSeq(mac, NotColon))

\* C12 as amended: the node_id in a reply is the hardware address without
\* separators in the letter case the data source supplied; it is lowercase
\* exactly when the supplied address is.
C12_CasePreserved ==
    \A k \in 1..Len(sent) : \A id \in DocNodeIds(sent[k]) :
        \E mac \in FetchedMacs :
            /\ id = SelectSeq(mac, NotColon)
            /\ IsLowerCase(id) <=> IsLowerCase(mac)

C12_Witness ==
    \E k \in 1..Len(sent) :
        /\ DocNodeIds(sent[k]) = {<<"A","A","B","B","C","C","D","D","E","E","F","F">>}
        /\ Mac1 \in FetchedMacs

\* The payloads a single request for this kind is to be answered with.
SinglePayloads(kind, aps) ==
    [k \in 1..Len(aps) |-> [enc |-> "json", doc |-> << <<kind, RecordOf(kind, aps[k])>> >>]]

\* C15: a single request is answered with payloads that depend on the
\* request and the data source alone, and leaves the responder ready for the
\* next: the same request issued again against the same data source is
\* answered with the same bytes.
C15_Idempotent ==
    (/\ pc \in {"sendto", "returned", "exited"}
     /\ IsSingle /\ Recognized(msgSplit[1])
     /\ Len(fetches) = 1 /\ fetches[1].ok /\ DistinctMacs(fetches[1].aps)
     /\ error # "OSError")
    => /\ pc # "exited"
       /\ [k \in 1..Len(sent) |-> sent[k].data] \o
            [k \in 1..Len(pending) |-> Encode(pending[k], withCompression)]
               = SinglePayloads(msgSplit[1], fetches[1].aps)

\* No reply of the datagram at hand is sent or waiting while the loop
\* receives, decodes or fetches; sendStruct returns when every node of the
\* merge result has been sent to.
C16_Phases ==
    /\ pc \in {"recvfrom", "decode", "multi", "single", "sendStruct"}
          => sent = <<>> /\ pending = <<>>
    /\ pc \in {"recvfrom", "decode"} => fetches = <<>>
    /\ pc = "returned"
          => pending = <<>> /\ Len(sent) = Len(merge_node(responseStruct))

\* C16: all replies to a request are sent before the next datagram is
\* received and before any fetch for it; replies of two requests are never
\* interleaved.
C16_RequestAtATime ==
    /\ []C16_Phases
    /\ [][pc' = "recvfrom" => (pc = "join" \/ (pc = "returned" /\ pending = <<>>))]_vars
    /\ [][msg' # msg => (pending = <<>> /\ sent' = <<>> /\ fetches' = <<>>)]_vars
    /\ [][(fetches' # fetches /\ fetches' # <<>>)
            => (sent = <<>> /\ pending = <<>> /\ msg' = msg)]_vars
    /\ [][(sent' # sent /\ sent' # <<>>)
            => (msg' = msg /\ sourceAddress' = sourceAddress /\ fetches' = fetches
                /\ sent' = Append(sent, sent'[Len(sent')]))]_vars

C16_Witness ==
    /\ pc = "returned"
    /\ prevSource \in Requesters
    /\ Len(fetches) = 2
    /\ Len(sent) = 2

\* The socket is bound to the interface before the port and to the port
\* before the join; until the join succeeded nothing is received or sent.
C17_Bound ==
    /\ sock.port => sock.device
    /\ sock.joined => sock.port
    /\ pc = "bind" => sock.device
    /\ pc = "join" => sock.device /\ sock.port
    /\ ~sock.joined => /\ pc \in Startup \cup {"exited"}
                       /\ msg = <<>> /\ sourceAddress = "none"
                       /\ sent = <<>> /\ fetches = <<>>

\* C17: the socket is bound to the interface and the port before the join
\* is issued; nothing is received or sent before the join succeeded; when
\* the interface bind, the port bind or the join fails, the responder ends
\* without having joined and never serves.
C17_StartupOrder ==
    /\ []C17_Bound
    /\ [][pc = "exited" => pc' = "exited"]_vars
    /\ [][(pc \in Startup /\ pc' = "exited") => ~sock'.joined]_vars

C17_Witness ==
    /\ pc = "exited"
    /\ error = "OSError"
    /\ sock.device /\ sock.port /\ ~sock.joined

RECURSIVE WordsAcc(_, _, _)
\* The words of a text: its maximal runs of characters outside blanks.
WordsAcc(s, blanks, cur) ==
    LET done == IF cur = <<>> THEN <<>> ELSE <<cur>> IN
    IF s = <<>> THEN done
    ELSE IF Head(s) \in blanks THEN done \o WordsAcc(Tail(s), blanks, <<>>)
    ELSE WordsAcc(Tail(s), blanks, cur \o <<Head(s)>>)
Words(s, blanks) == WordsAcc(s, blanks, <<>>)

RECURSIVE Join(_)
\* " ".join(tokens)
Join(tokens) ==
    IF Len(tokens) = 0 THEN <<>>
    ELSE IF Len(tokens) = 1 THEN tokens[1]
    ELSE tokens[1] \o <<SPACE>> \o Join(Tail(tokens))

FetchedAps == [k \in 1..Len(fetches) |-> fetches[k].aps]

\* C18 as stated: a request whose tokens are separated or followed by any
\* whitespace is answered like the same request written with single spaces:
\* one fetch per recognized word, and the replies for those kinds.
C18_WhitespaceSplit ==
    (/\ pc = "returned"
     /\ Words(msg, {SPACE, NEWLINE}) # <<>>
     /\ Words(msg, {SPACE, NEWLINE})[1] = GET)
    => LET kinds == SelectSeq(Tail(Words(msg, {SPACE, NEWLINE})), Recognized) IN
       /\ Len(fetches) = Len(kinds)
       /\ Sent = RepliesTo(kinds, FetchedAps, sourceAddress)

\* C18 as amended: the text is cut at each single space and nowhere else;
\* in a GET request further spaces between or after the kinds give empty
\* tokens, which are skipped, and a newline stays part of its token, which
\* is then no recognized kind.
C18_SingleSpaceSplit ==
    msgSplit # <<>> =>
        /\ Join(msgSplit) = msg
        /\ \A k \in 1..Len(msgSplit) : \A n \in 1..Len(msgSplit[k]) :
              msgSplit[k][n] # SPACE
        /\ (pc = "returned" /\ IsMulti)
              => LET kinds == SelectSeq(Tail(Words(msg, {SPACE})), Recognized) IN
                 /\ Len(fetches) = Len(kinds)
                 /\ Sent = RepliesTo(kinds, FetchedAps, sourceAddress)

C18_Witness ==
    /\ pc = "returned"
    /\ msg = <<"GET", SPACE, SPACE, "nodeinfo">>
    /\ msgSplit = <<GET, <<>>, NODEINFO>>
    /\ Len(sent) = 2

\* A merge result as a mapping: node_id -> set of (kind, record).
AsMap(m) ==
    {<<m[k][1], {<<m[k][2][n][1], m[k][2][n][2]>> : n \in 1..Len(m[k][2])}>>
        : k \in 1..Len(m)}
Reverse(seq) == [k \in 1..Len(seq) |-> seq[Len(seq) + 1 - k]]
\* Every token after GET is a recognized kind, none twice.
DistinctKinds ==
    /\ IsMulti
    /\ \A k \in 2..Len(msgSplit) : Recognized(msgSplit[k])
    /\ \A j, k \in 2..Len(msgSplit) : j # k => msgSplit[j] # msgSplit[k]

\* C19: merging yields the same node_id -> composite mapping whatever the
\* order of the kinds, so a GET request with its kinds in the other order,
\* against the same inventory, gives the same composite records.
C19_KindOrderIndependent ==
    /\ responseStruct.type = "dict"
          => AsMap(merge_node(responseStruct))
               = AsMap(merge_node(Dict(Reverse(responseStruct.items))))
    /\ (pc = "sendto" /\ sent = <<>> /\ DistinctKinds)
          => {{<<pending[k][n][1], pending[k][n][2]>> : n \in 1..Len(pending[k])}
                 : k \in 1..Len(pending)}
               = {c[2] : c \in AsMap(merge_node(Dict(
                     BuildAll(<<>>, Reverse(Tail(msgSplit)), Reverse(FetchedAps)))))}

C19_Witness ==
    /\ pc = "sendto"
    /\ sent = <<>>
    /\ msgSplit = <<GET, STATISTICS, NODEINFO>>
    /\ Len(fetches[1].aps) = 2 /\ fetches[2].aps = <<Ap1>>
    /\ Len(pending) = 2

IsKind(token) == token \in {<<"nodeinfo">>, <<"statistics">>}
FetchKinds == [k \in 1..Len(fetches) |-> fetches[k].kind]

\* C20: a GET request fetches the data source once for each recognized
\* kind token, in token order, and not for other tokens; every fetch is
\* over before the first reply is sent.  The kinds of one request thus come
\* from separate fetches (the witness: a node answered with one kind only).
C20_FetchDiscipline ==
    IsMulti =>
        /\ pc = "multi" =>
              /\ FetchKinds = SelectSeq(SubSeq(msgSplit, 2, i - 1), IsKind)
              /\ AllFetchesOk
        /\ (pc = "exited" /\ error = "FetchError") =>
              /\ FetchKinds = SelectSeq(SubSeq(msgSplit, 2, i), IsKind)
              /\ \A k \in 1..Len(fetches) : fetches[k].ok <=> k < Len(fetches)
        /\ (pc \in {"sendStruct", "sendto", "returned"} \/ sent # <<>>
               \/ (pc = "exited" /\ error # "FetchError")) =>
              /\ FetchKinds = SelectSeq(Tail(msgSplit), IsKind)
              /\ AllFetchesOk

C20_Witness ==
    /\ msgSplit = <<GET, NODEINFO, STATISTICS>>
    /\ Len(fetches) = 2
    /\ fetches[1].aps = <<Ap1>>
    /\ fetches[2].aps = <<Ap1, Ap2>>
    /\ \E k \in 1..Len(sent) : DocKinds(sent[k]) = {STATISTICS}

====
